---- MODULE Spec2Model ----
(***************************************************************************)
(* A model of wordleologist.py (phildavis17/wordleologist): the            *)
(* WordleTrainer session object, its feedback operations (green, yellow,   *)
(* gray), the candidate filter (possible_words), the frequency counters    *)
(* and the three guess recommenders.                                       *)
(*                                                                         *)
(* A word is a function from the indexes 0..4 to letters, a letter is a    *)
(* one-character string, a Python set is a set, and the session object     *)
(* `self` is a record with one field per attribute.  A method is an        *)
(* operator that takes the session and returns the session after the       *)
(* call; a property is an operator of the session.                         *)
(***************************************************************************)
EXTENDS Integers, Sequences, FiniteSets, TLC

VARIABLES
    FIVE_LETTER_WORDS,  \* the class attribute: the Lexicon, fixed at import
    self,               \* the WordleTrainer object
    call,               \* the last call recorded since the last reset, with
                        \* its arguments
    ops,                \* feedback calls made since the last reset
    greens,             \* history: the letter last assigned by green at each
                        \* index since the last reset, NoLetter where none was
    raised,             \* whether the last call ended in an exception
    pc                  \* where the program is: "idle" while the object is
                        \* driven by calls, "input_loop" while input_loop waits
                        \* for a command, and the way that loop was left

vars == <<FIVE_LETTER_WORDS, self, call, ops, greens, raised, pc>>

(***************************************************************************)
(* Bounds of the model.                                                    *)
(***************************************************************************)
\* feedback calls followed in one session before a reset is needed
MaxOps == 2
\* most distinct characters handed to one gray call
MaxGray == 2

(***************************************************************************)
(* Letters and words.                                                      *)
(***************************************************************************)
\* range(5): the indexes of possible_letters
WordLen == 5
Pos == 0 .. (WordLen - 1)

\* string.ascii_uppercase, cut down to the letters the lexicons use
Alphabet == {"A", "B", "C", "E", "G", "I", "L", "N", "P", "R", "S", "T"}
\* the letters the calls of the model name
InputLetters == {"A", "C", "E", "R", "S"}
\* the lower-case letters of string.ascii_letters that the inputs use
LowerLetters == {"c"}
\* the filler a user types for an empty place of a green or yellow token
Filler == "-"

\* str.upper() on one character
upper(c) == IF c = "c" THEN "C" ELSE c

\* the word written as the tuple s, indexed from 0 as a Python string is
W(s) == [i \in 0 .. (Len(s) - 1) |-> s[i + 1]]
\* set(word)
CharsOf(word) == {word[i] : i \in DOMAIN word}

\* no letter: the entry of greens at an index green never assigned
NoLetter == ""

\* target_word = None
None == << >>

\* Two lexicons: in LexiconA some words have their only C in front, in
\* LexiconB the one word that starts with C holds a second C.
LexiconA ==
    { W(<<"C","A","R","E","S">>), W(<<"R","A","C","E","S">>),
      W(<<"A","C","R","E","S">>), W(<<"S","C","A","R","E">>),
      W(<<"C","A","S","E","S">>), W(<<"E","R","A","S","E">>),
      W(<<"C","E","A","S","E">>), W(<<"R","A","C","E","R">>) }
LexiconB ==
    { W(<<"C","A","C","A","S">>), W(<<"A","C","C","A","S">>),
      W(<<"S","E","A","R","S">>), W(<<"R","A","R","E","R">>),
      W(<<"E","R","A","S","E">>), W(<<"A","R","E","A","S">>) }
Lexicons == {LexiconA, LexiconB}

(***************************************************************************)
(* WordleTrainer.reset: the state of a fresh object.                       *)
(***************************************************************************)
\* a slip: the target word is not kept, as in __init__
reset_without_target(target_word) ==
    [ target_word      |-> << >>,
      possible_letters |-> [x \in 0 .. 4 |-> Alphabet],
      known_alphabet   |-> [c \in Alphabet |-> "WHITE"],
      included         |-> {},
      excluded         |-> {},
      guessed_words    |-> << >>,
      hardmode         |-> FALSE ]

reset(target_word) ==
    [ target_word      |-> target_word,
      possible_letters |-> [x \in Pos |-> Alphabet],
      known_alphabet   |-> [c \in Alphabet |-> "WHITE"],
      included         |-> {},
      excluded         |-> {},
      guessed_words    |-> << >>,
      hardmode         |-> FALSE ]

(***************************************************************************)
(* The candidate filter.                                                   *)
(***************************************************************************)
\* one pass per character of included, in the set's iteration order
RECURSIVE _filter_by_inlcuded(_, _)
_filter_by_inlcuded(included, words) ==
    IF included = {} THEN words
    ELSE LET char == CHOOSE c \in included : TRUE
             bad_words == {word \in words : char \notin CharsOf(word)}
         IN  _filter_by_inlcuded(included \ {char}, words \ bad_words)

\* a slip: every pass tests the first letter of the word
_filter_by_letter_first_index(index, possible, words) ==
    LET bad_words == {word \in words : word[0] \notin possible}
    IN  words \ bad_words

_filter_by_letter(index, possible, words) ==
    LET bad_words == {word \in words : word[index] \notin possible}
    IN  words \ bad_words

\* a slip: the loop is left at the first index whose filter removes a word
RECURSIVE FilterFrom_first_removal(_, _, _)
FilterFrom_first_removal(index, possible_letters, remaining_words) ==
    IF index \notin DOMAIN possible_letters THEN remaining_words
    ELSE LET filtered == {word \in remaining_words :
                            word[index] \in possible_letters[index]}
         IN  IF filtered # remaining_words THEN filtered
             ELSE FilterFrom_first_removal(index + 1, possible_letters,
                                           remaining_words)

\* the loop over possible_letters.items(), from index on
RECURSIVE FilterFrom(_, _, _)
FilterFrom(index, possible_letters, remaining_words) ==
    IF index \notin DOMAIN possible_letters THEN remaining_words
    ELSE FilterFrom(index + 1, possible_letters,
                    _filter_by_letter(index, possible_letters[index],
                                      remaining_words))

\* what possible_words has in remaining_words before it tests for emptiness
remaining_words(s) ==
    FilterFrom(0, s.possible_letters,
               _filter_by_inlcuded(s.included, FIVE_LETTER_WORDS))

\* a slip: the test for emptiness is left out
possible_words_unchecked(s) ==
    [raised |-> FALSE, value |-> remaining_words(s)]

\* the property possible_words: raised is the ValueError, value the set returned
possible_words(s) ==
    LET remaining == remaining_words(s)
    IN  IF remaining = {}
        THEN [raised |-> TRUE, value |-> {}]
        ELSE [raised |-> FALSE, value |-> remaining]

(***************************************************************************)
(* The operations on the constraint store.                                 *)
(***************************************************************************)
\* a slip: the test of the length is left out
exclude_at_index_unguarded(s, index, bad_chars) ==
    [s EXCEPT !.possible_letters[index] = @ \ bad_chars]

\* bad_chars is set(bad_chars)
exclude_at_index(s, index, bad_chars) ==
    IF Cardinality(s.possible_letters[index]) > 1
    THEN [s EXCEPT !.possible_letters[index] = @ \ bad_chars]
    ELSE s

RECURSIVE ExcludeFrom(_, _, _)
ExcludeFrom(s, index, bad_chars) ==
    IF index \notin DOMAIN s.possible_letters THEN s
    ELSE ExcludeFrom(exclude_at_index(s, index, bad_chars), index + 1, bad_chars)

exclude(s, bad_chars) == ExcludeFrom(s, 0, bad_chars)

\* a slip: included is assigned, not updated
include_assigns(s, good_chars) == [s EXCEPT !.included = good_chars]

\* good_chars is set(good_chars)
include(s, good_chars) == [s EXCEPT !.included = @ \cup good_chars]

\* a slip: the letter is added to the set, which is not replaced
assign_at_index_adds(s, index, char) ==
    IF Len(char) # 1 THEN s
    ELSE [s EXCEPT !.possible_letters[index] = @ \cup {char[1]},
                   !.included = @ \cup {char[1]}]

\* the test that opens assign_at_index: whether the call raises ValueError
assign_at_index_raises(char) == Len(char) # 1

\* a slip: the length is tested after the assignments, so that a call that
\* raises has already written set(char) and added the string to included
assign_at_index_late_test(s, index, char) ==
    [s EXCEPT !.possible_letters[index] = {char[i] : i \in 1 .. Len(char)},
              !.included = @ \cup (IF Len(char) = 1 THEN {char[1]} ELSE {char})]

\* a slip: included ^= set(char), so that a second call takes the letter out
assign_at_index_toggles(s, index, char) ==
    IF Len(char) # 1 THEN s
    ELSE [s EXCEPT !.possible_letters[index] = {char[1]},
                   !.included = (@ \ {char[1]}) \cup ({char[1]} \ @)]

\* char is the string handed in, a tuple of characters; a string whose length
\* is not 1 raises before anything is assigned.  The assignment to
\* possible_letters[index] makes index a key when it is none.
assign_at_index(s, index, char) ==
    IF Len(char) # 1 THEN s
    ELSE [s EXCEPT !.possible_letters =
                       [i \in DOMAIN @ \cup {index} |->
                           IF i = index THEN {char[1]} ELSE @[i]],
                   !.included = @ \cup {char[1]}]

\* {i: c.upper() for i, c in enumerate(input_str) if c in string.ascii_letters}
\* as the set of its items
_process_char_assignment_str(input_str) ==
    { <<i, upper(input_str[i])>> : i \in {j \in DOMAIN input_str :
                                     input_str[j] \in Alphabet \cup LowerLetters} }

\* the loop of green over char_dict.items(), in index order
RECURSIVE GreenLoop(_, _)
GreenLoop(s, char_dict) ==
    IF char_dict = {} THEN s
    ELSE LET item == CHOOSE it \in char_dict :
                        \A other \in char_dict : it[1] <= other[1]
         IN  GreenLoop(assign_at_index(s, item[1], <<item[2]>>),
                       char_dict \ {item})

green(s, characters) == GreenLoop(s, _process_char_assignment_str(characters))

RECURSIVE YellowLoop(_, _)
YellowLoop(s, char_dict) ==
    IF char_dict = {} THEN s
    ELSE LET item == CHOOSE it \in char_dict :
                        \A other \in char_dict : it[1] <= other[1]
         IN  YellowLoop(exclude_at_index(include(s, {item[2]}), item[1], {item[2]}),
                        char_dict \ {item})

\* a slip: yellow calls exclude, which removes the letter at every index
RECURSIVE YellowExcludeLoop(_, _)
YellowExcludeLoop(s, char_dict) ==
    IF char_dict = {} THEN s
    ELSE LET item == CHOOSE it \in char_dict : TRUE
         IN  YellowExcludeLoop(exclude(include(s, {item[2]}), {item[2]}),
                               char_dict \ {item})

yellow_excludes(s, characters) ==
    YellowExcludeLoop(s, _process_char_assignment_str(characters))

yellow(s, characters) == YellowLoop(s, _process_char_assignment_str(characters))

\* a slip: the letters are recorded in excluded as well
gray_records(s, characters) ==
    [exclude(s, {upper(c) : c \in characters}) EXCEPT
        !.excluded = @ \cup {upper(c) : c \in characters}]

\* a slip: the string is not upper-cased
gray_as_typed(s, characters) == exclude(s, characters)

\* characters is the set of the characters of the string
gray(s, characters) == exclude(s, {upper(c) : c \in characters})

toggle_hardmode(s) == [s EXCEPT !.hardmode = ~ @]

(***************************************************************************)
(* The frequency counters.  A Counter is a function of the letters: a      *)
(* letter it never counted reads 0, as a Counter's missing key does.       *)
(***************************************************************************)
EmptyCounter == [c \in Alphabet |-> 0]

\* for word in possible_words: freq.update(set(word))
RECURSIVE FrequencyLoop(_, _)
FrequencyLoop(words, freq) ==
    IF words = {} THEN freq
    ELSE LET word == CHOOSE w \in words : TRUE
         IN  FrequencyLoop(words \ {word},
                 [c \in Alphabet |->
                     IF c \in CharsOf(word) THEN freq[c] + 1 ELSE freq[c]])

\* a slip: freq.update(word), which counts every occurrence of a letter
RECURSIVE OccurrenceLoop(_, _)
OccurrenceLoop(words, freq) ==
    IF words = {} THEN freq
    ELSE LET word == CHOOSE w \in words : TRUE
         IN  OccurrenceLoop(words \ {word},
                 [c \in Alphabet |->
                     freq[c] + Cardinality({i \in DOMAIN word : word[i] = c})])

frequencies_of_occurrences(words) == OccurrenceLoop(words, EmptyCounter)

\* the property frequencies, over the words possible_words returned
frequencies(words) == FrequencyLoop(words, EmptyCounter)

\* Counter(chars) for the tuple chars that zip(*words) makes of index i
RECURSIVE IndexCounterLoop(_, _, _)
IndexCounterLoop(words, i, counter) ==
    IF words = {} THEN counter
    ELSE LET word == CHOOSE w \in words : TRUE
         IN  IndexCounterLoop(words \ {word}, i,
                 [counter EXCEPT ![word[i]] = @ + 1])

\* the property index_frequencies, over the words possible_words returned
index_frequencies(words) ==
    [i \in Pos |-> IndexCounterLoop(words, i, EmptyCounter)]

(***************************************************************************)
(* The guess recommenders.  Each returns random.choice of the list its     *)
(* loop builds: value is the set of the words that list holds, any of      *)
(* which the call may return; raised is the ValueError of possible_words.  *)
(***************************************************************************)
RECURSIVE SumOver(_, _)
SumOver(chars, freq) ==
    IF chars = {} THEN 0
    ELSE LET c == CHOOSE x \in chars : TRUE
         IN  freq[c] + SumOver(chars \ {c}, freq)

\* a slip: the letters of included are scored as well
_get_frequency_score_all(s, word, freq) ==
    SumOver({c \in CharsOf(word) : c \notin s.excluded}, freq)

_get_frequency_score(s, word, freq) ==
    SumOver({c \in CharsOf(word) : c \notin s.included /\ c \notin s.excluded},
            freq)

RECURSIVE IndexSumFrom(_, _, _)
IndexSumFrom(i, word, freq) ==
    IF i \notin DOMAIN word THEN 0
    ELSE freq[i][word[i]] + IndexSumFrom(i + 1, word, freq)

_get_index_frequency_score(word, freq) == IndexSumFrom(0, word, freq)

\* a slip: hardmode is not read
WordSet_lexicon(s) == FIVE_LETTER_WORDS

\* the pool a recommender scores: possible_words in hardmode, else the Lexicon
WordSet(s) ==
    IF s.hardmode THEN possible_words(s).value ELSE FIVE_LETTER_WORDS

\* the loop of find_best_guess_by_frequency, from best = [score, guesses]
RECURSIVE FrequencyBestLoop(_, _, _, _)
FrequencyBestLoop(s, word_set, freq, best) ==
    IF word_set = {} THEN best
    ELSE LET word == CHOOSE w \in word_set : TRUE
             score == _get_frequency_score(s, word, freq)
         IN  FrequencyBestLoop(s, word_set \ {word}, freq,
                 IF score = best.score
                 THEN [best EXCEPT !.guesses = @ \cup {word}]
                 ELSE IF score > best.score
                      THEN [score |-> score, guesses |-> {word}]
                      ELSE best)

find_best_guess_by_frequency(s) ==
    IF possible_words(s).raised THEN [raised |-> TRUE, value |-> {}]
    ELSE [raised |-> FALSE,
          value  |-> FrequencyBestLoop(s, WordSet(s),
                         frequencies(possible_words(s).value),
                         [score |-> 0, guesses |-> {}]).guesses]

\* the loop of find_best_guess_by_index
RECURSIVE IndexBestLoop(_, _, _)
IndexBestLoop(words, freq, best) ==
    IF words = {} THEN best
    ELSE LET word == CHOOSE w \in words : TRUE
             score == _get_index_frequency_score(word, freq)
         IN  IndexBestLoop(words \ {word}, freq,
                 IF score > best.score
                 THEN [score |-> score, guesses |-> {word}]
                 ELSE IF score = best.score
                      THEN [best EXCEPT !.guesses = @ \cup {word}]
                      ELSE best)

find_best_guess_by_index(s) ==
    IF possible_words(s).raised THEN [raised |-> TRUE, value |-> {}]
    ELSE [raised |-> FALSE,
          value  |-> IndexBestLoop(WordSet(s),
                         index_frequencies(possible_words(s).value),
                         [score |-> 0, guesses |-> {}]).guesses]

\* the loop of find_best_guess_combined
RECURSIVE CombinedBestLoop(_, _, _, _, _)
CombinedBestLoop(s, words, freq, i_freq, best) ==
    IF words = {} THEN best
    ELSE LET word == CHOOSE w \in words : TRUE
             score == _get_frequency_score(s, word, freq)
                        + _get_index_frequency_score(word, i_freq)
         IN  CombinedBestLoop(s, words \ {word}, freq, i_freq,
                 IF score > best.score
                 THEN [score |-> score, guesses |-> {word}]
                 ELSE IF score = best.score
                      THEN [best EXCEPT !.guesses = @ \cup {word}]
                      ELSE best)

find_best_guess_combined(s) ==
    IF possible_words(s).raised THEN [raised |-> TRUE, value |-> {}]
    ELSE [raised |-> FALSE,
          value  |-> CombinedBestLoop(s, WordSet(s),
                         frequencies(possible_words(s).value),
                         index_frequencies(possible_words(s).value),
                         [score |-> 0, guesses |-> {}]).guesses]

(***************************************************************************)
(* The inputs the model hands to the operations.                           *)
(***************************************************************************)
\* the token with character c at place i and fillers elsewhere
Token(i, c) == [j \in Pos |-> IF j = i THEN c ELSE Filler]
Tokens == {Token(i, c) : i \in Pos, c \in InputLetters \cup LowerLetters}
\* the strings handed to gray, as the sets of their characters
GrayArgs ==
    {S \in SUBSET InputLetters :
        Cardinality(S) >= 1 /\ Cardinality(S) <= MaxGray}
        \cup {{c} : c \in LowerLetters}

(***************************************************************************)
(* The session: construction and the calls a client makes.                 *)
(***************************************************************************)
NoGreens == [i \in Pos |-> NoLetter]

Init ==
    /\ FIVE_LETTER_WORDS \in Lexicons
    /\ self = reset(None)
    /\ call = [op |-> "init"]
    /\ ops = 0
    /\ greens = NoGreens
    /\ raised = FALSE
    /\ pc = "idle"

Green(characters) ==
    /\ ops < MaxOps
    /\ self' = green(self, characters)
    /\ call' = [op |-> "green", characters |-> characters]
    /\ ops' = ops + 1
    /\ raised' = FALSE
    /\ greens' = [i \in Pos |->
                    IF characters[i] \in Alphabet \cup LowerLetters
                    THEN upper(characters[i]) ELSE greens[i]]
    /\ UNCHANGED <<FIVE_LETTER_WORDS, pc>>

Yellow(characters) ==
    /\ ops < MaxOps
    /\ self' = yellow(self, characters)
    /\ call' = [op |-> "yellow", characters |-> characters]
    /\ ops' = ops + 1
    /\ raised' = FALSE
    /\ UNCHANGED <<FIVE_LETTER_WORDS, pc, greens>>

Gray(characters) ==
    /\ ops < MaxOps
    /\ self' = gray(self, characters)
    /\ call' = [op |-> "gray", characters |-> characters]
    /\ ops' = ops + 1
    /\ raised' = FALSE
    /\ UNCHANGED <<FIVE_LETTER_WORDS, pc, greens>>

Reset ==
    /\ self' = reset(None)
    /\ call' = [op |-> "init"]
    /\ ops' = 0
    /\ raised' = FALSE
    /\ greens' = NoGreens
    /\ UNCHANGED <<FIVE_LETTER_WORDS, pc>>

ToggleHardmode ==
    /\ self' = toggle_hardmode(self)
    /\ raised' = FALSE
    /\ UNCHANGED <<FIVE_LETTER_WORDS, pc, call, ops, greens>>

\* get_words: prints sorted(possible_words), or fails with its ValueError
GetWords ==
    /\ raised' = possible_words(self).raised
    /\ UNCHANGED <<FIVE_LETTER_WORDS, pc, self, call, ops, greens>>

\* get_clues: the three recommenders; the first reads frequencies, which
\* raises when possible_words does
GetClues ==
    /\ raised' = possible_words(self).raised
    /\ UNCHANGED <<FIVE_LETTER_WORDS, pc, self, call, ops, greens>>

Next ==
    \/ \E characters \in Tokens : Green(characters)
    \/ \E characters \in Tokens : Yellow(characters)
    \/ \E characters \in GrayArgs : Gray(characters)
    \/ Reset
    \/ ToggleHardmode
    \/ GetWords
    \/ GetClues

Spec == Init /\ [][Next]_vars

(***************************************************************************)
(* Feedback graded against a target word.  A guess is evaluated as the     *)
(* self-play mode evaluates it, and the grades are entered as a green      *)
(* token, a yellow token and a gray string, in any order.                  *)
(***************************************************************************)
\* guesses graded in one session
MaxGuesses == 3

\* a slip: a letter of the target word found at another index is set to
\* yellow whatever is known of it
_evaluate_guess_char_unguarded(s, index, guess_char) ==
    IF s.target_word = None
    THEN [self |-> s, style |-> "RuntimeError"]
    ELSE IF s.target_word[index] = guess_char
    THEN [self  |-> [s EXCEPT !.known_alphabet[guess_char] = "GREEN"],
          style |-> "GREEN"]
    ELSE IF guess_char \in CharsOf(s.target_word)
    THEN [self  |-> [s EXCEPT !.known_alphabet[guess_char] = "YELLOW"],
          style |-> "YELLOW"]
    ELSE [self  |-> [s EXCEPT !.known_alphabet[guess_char] = "GRAY"],
          style |-> "GRAY"]

\* the style returned and the session after the call; without a target word
\* the call raises RuntimeError and nothing changes
_evaluate_guess_char(s, index, guess_char) ==
    IF s.target_word = None
    THEN [self |-> s, style |-> "RuntimeError"]
    ELSE IF s.target_word[index] = guess_char
    THEN [self  |-> [s EXCEPT !.known_alphabet[guess_char] = "GREEN"],
          style |-> "GREEN"]
    ELSE IF guess_char \in CharsOf(s.target_word)
    THEN [self  |-> IF s.known_alphabet[guess_char] # "GREEN"
                    THEN [s EXCEPT !.known_alphabet[guess_char] = "YELLOW"]
                    ELSE s,
          style |-> "YELLOW"]
    ELSE [self  |-> [s EXCEPT !.known_alphabet[guess_char] = "GRAY"],
          style |-> "GRAY"]

\* the comprehension of _build_guess_evaluation, from index i on: styles is
\* the tuple built so far, as a function of the indexes
RECURSIVE EvaluationFrom(_, _, _, _)
EvaluationFrom(s, guess, i, styles) ==
    IF i \notin DOMAIN guess THEN [self |-> s, styles |-> styles]
    ELSE CHOOSE evaluation \in
             {EvaluationFrom(r.self, guess, i + 1,
                             [styles EXCEPT ![i] = r.style]) :
                 r \in {_evaluate_guess_char(s, i, guess[i])}} :
             TRUE

_build_guess_evaluation(s, guess) ==
    EvaluationFrom(s, guess, 0, [i \in DOMAIN guess |-> "WHITE"])

\* the tokens a user enters for an evaluated guess
GreenToken(guess, styles) ==
    [i \in Pos |-> IF styles[i] = "GREEN" THEN guess[i] ELSE Filler]
YellowToken(guess, styles) ==
    [i \in Pos |-> IF styles[i] = "YELLOW" THEN guess[i] ELSE Filler]
GrayString(guess, styles) == {guess[i] : i \in {j \in Pos : styles[j] = "GRAY"}}

\* one of the three commands, applied to the session
Enter(s, command, guess, styles) ==
    CASE command = "green"  -> green(s, GreenToken(guess, styles))
      [] command = "yellow" -> yellow(s, YellowToken(guess, styles))
      [] command = "gray"   -> gray(s, GrayString(guess, styles))

\* the guesses: the words of both lexicons and three strings of none
OtherGuesses ==
    { W(<<"C","C","C","C","C">>), W(<<"S","E","C","C","S">>),
      W(<<"E","A","R","S","C">>) }
Guesses == LexiconA \cup LexiconB \cup OtherGuesses
Orders == { <<"green", "yellow", "gray">>, <<"green", "gray", "yellow">>,
            <<"yellow", "green", "gray">>, <<"yellow", "gray", "green">>,
            <<"gray", "green", "yellow">>, <<"gray", "yellow", "green">> }

\* a session reset with a target word of the Lexicon
InitGraded ==
    /\ FIVE_LETTER_WORDS \in Lexicons
    /\ \E target \in FIVE_LETTER_WORDS : self = reset(target)
    /\ call = [op |-> "init"]
    /\ ops = 0
    /\ greens = NoGreens
    /\ raised = FALSE
    /\ pc = "idle"

GradedGuess(guess, order) ==
    /\ ops < MaxGuesses
    /\ LET ev == _build_guess_evaluation(self, guess)
       IN  /\ self' = Enter(Enter(Enter(ev.self, order[1], guess, ev.styles),
                                  order[2], guess, ev.styles),
                            order[3], guess, ev.styles)
           /\ greens' = [i \in Pos |-> IF ev.styles[i] = "GREEN"
                                       THEN guess[i] ELSE greens[i]]
    /\ call' = [op |-> "guess", guess |-> guess]
    /\ ops' = ops + 1
    /\ raised' = FALSE
    /\ UNCHANGED <<FIVE_LETTER_WORDS, pc>>

NextGraded == \E guess \in Guesses, order \in Orders : GradedGuess(guess, order)

SpecGraded == InitGraded /\ [][NextGraded]_vars

\* C1: after every guess graded against the target word and entered as
\* green, yellow and gray, the target word is a word of possible_words.
C1_Soundness ==
    /\ ~ possible_words(self).raised
    /\ self.target_word \in possible_words(self).value

\* two guesses were graded, with a green, a yellow and a gray letter among
\* them, and they left the target word as the only candidate
C1_Witness ==
    /\ ops = 2
    /\ \E i \in Pos : greens[i] # NoLetter
    /\ \E i \in Pos : Cardinality(Alphabet \ self.possible_letters[i]) \in {2, 3}
    /\ \E c \in Alphabet : \A i \in Pos : c \notin self.possible_letters[i]
    /\ \E c \in self.included : \A i \in Pos : greens[i] # c
    /\ possible_words(self).value = {self.target_word}

(***************************************************************************)
(* The candidate filter and the contradiction fault (C3, C4).              *)
(***************************************************************************)
\* the Lexicon words that satisfy possible_letters and included
SatisfyingWords(s) ==
    {w \in FIVE_LETTER_WORDS :
        /\ \A i \in Pos : w[i] \in s.possible_letters[i]
        /\ \A c \in s.included : \E i \in Pos : w[i] = c}

\* C3: whenever possible_words does not raise, it returns exactly the Lexicon
\* words whose letter at every index is in possible_letters at that index and
\* that hold every letter of included.
C3_CandidateFilter ==
    ~ possible_words(self).raised
        => possible_words(self).value = SatisfyingWords(self)

\* both filters have removed words, and some words are left
C3_Witness ==
    /\ ~ possible_words(self).raised
    /\ self.included # {}
    /\ \E i \in Pos : self.possible_letters[i] = Alphabet \ {"C", "S"}
    /\ Cardinality(possible_words(self).value) >= 2
    /\ _filter_by_inlcuded(self.included, FIVE_LETTER_WORDS)
          # possible_words(self).value
    /\ FilterFrom(0, self.possible_letters, FIVE_LETTER_WORDS)
          # possible_words(self).value

\* C4: possible_words raises whenever no Lexicon word satisfies the store, and
\* every set it returns is non-empty.
C4_NoSilentEmpty ==
    /\ SatisfyingWords(self) = {} => possible_words(self).raised
    /\ ~ possible_words(self).raised => possible_words(self).value # {}

\* a query of the words of a store no word satisfies, which raised
C4_Witness ==
    /\ raised
    /\ SatisfyingWords(self) = {}

(***************************************************************************)
(* Narrowing (C2).                                                         *)
(***************************************************************************)
\* the size of possible_words, the contradiction fault counting as none
CandidateCount(s) ==
    IF possible_words(s).raised THEN 0
    ELSE Cardinality(possible_words(s).value)

\* a step that is one green, yellow or gray call
FeedbackStep == ops' = ops + 1

\* the letters a green or yellow token names, each with its index
Marks(characters) == _process_char_assignment_str(characters)

\* C2 as stated: no green, yellow or gray call leaves more candidate words
\* than there were before it.
C2_MonotonicAsStated ==
    [][FeedbackStep => CandidateCount(self') <= CandidateCount(self)]_vars

\* every letter a green token assigns is still possible at its index
GreenOfPossibleLetter ==
    call'.op = "green" =>
        \A m \in Marks(call'.characters) :
            m[2] \in self.possible_letters[m[1]]

\* C2 as amended: no yellow or gray call, and no green call whose letter is
\* still in possible_letters at its index, leaves more candidate words than
\* there were before it.
C2_MonotonicNarrowing ==
    [][(FeedbackStep /\ GreenOfPossibleLetter)
          => CandidateCount(self') <= CandidateCount(self)]_vars

\* a green call, made after a gray call of another letter, that left some but
\* not all of the Lexicon
C2_Witness ==
    /\ ops = 2
    /\ call.op = "green"
    /\ greens[0] = "C"
    /\ \A i \in Pos \ {0} : self.possible_letters[i] = Alphabet \ {"R"}
    /\ CandidateCount(self) > 0
    /\ CandidateCount(self) < Cardinality(FIVE_LETTER_WORDS)

(***************************************************************************)
(* Green letters and the later calls (C5, C6, C9, C10).                    *)
(***************************************************************************)
\* the letters a gray call removes
GrayLetters(characters) == {upper(c) : c \in characters}

\* C5: a gray call that names the letter green assigned at an index leaves
\* possible_letters at that index the singleton of that letter.
C5_GrayNonRegression ==
    [][(FeedbackStep /\ call'.op = "gray") =>
          \A i \in Pos :
              ( /\ greens[i] # NoLetter
                /\ self.possible_letters[i] = {greens[i]}
                /\ greens[i] \in GrayLetters(call'.characters) )
                  => self'.possible_letters[i] = {greens[i]}]_vars

\* a gray call of two letters, one of them the green letter of index 1, which
\* kept that singleton and removed the letters elsewhere
C5_Witness ==
    /\ call.op = "gray"
    /\ Cardinality(call.characters) = 2
    /\ greens[1] \in GrayLetters(call.characters)
    /\ self.possible_letters[1] = {greens[1]}
    /\ \A i \in Pos \ {1} :
          self.possible_letters[i] = Alphabet \ GrayLetters(call.characters)

\* a fresh session after green C----, then gray C
AfterGreenCGrayC ==
    /\ ops = 2
    /\ call.op = "gray"
    /\ call.characters = {"C"}
    /\ greens = [i \in Pos |-> IF i = 0 THEN "C" ELSE NoLetter]

WordsWithOnlyLeadingC ==
    {w \in FIVE_LETTER_WORDS : w[0] = "C" /\ \A i \in Pos \ {0} : w[i] # "C"}

C9_YellowPostcondition ==
    [][(FeedbackStep /\ call'.op = "yellow") =>
          \A m \in Marks(call'.characters) :
              /\ m[2] \in self'.included
              /\ m[2] \notin self'.possible_letters[m[1]]
              /\ \A j \in Pos \ {m[1]} :
                    self'.possible_letters[j] = self.possible_letters[j]]_vars

\* C10: an index green has assigned holds exactly one letter after every
\* later green, yellow or gray call, until the session is reset.
C10_SingletonPersistence ==
    \A i \in Pos :
        greens[i] # NoLetter => Cardinality(self.possible_letters[i]) = 1

\* a yellow or gray call that named the green letter of an index, made after
\* the green call
C10_Witness ==
    /\ ops = 2
    /\ \E i \in Pos :
          /\ greens[i] # NoLetter
          /\ \/ call.op = "gray" /\ greens[i] \in GrayLetters(call.characters)
             \/ call.op = "yellow" /\ <<i, greens[i]>> \in Marks(call.characters)
          /\ self.possible_letters[i] = {greens[i]}

Pool(s) == IF s.hardmode THEN SatisfyingWords(s) ELSE FIVE_LETTER_WORDS

\* how many candidate words hold letter c; how many hold it at index i
CountWith(s) ==
    [c \in Alphabet |->
        Cardinality({v \in SatisfyingWords(s) : \E i \in Pos : v[i] = c})]
CountWithAt(s) ==
    [i \in Pos |-> [c \in Alphabet |->
        Cardinality({v \in SatisfyingWords(s) : v[i] = c})]]

\* the information score of every word of the pool
InformationScore(s) ==
    LET count == CountWith(s)
    IN  [w \in Pool(s) |->
            SumOver({c \in Alphabet : /\ \E i \in Pos : w[i] = c
                                      /\ c \notin s.included \cup s.excluded},
                    count)]

\* the positional score of every word of the pool
PositionalScore(s) ==
    LET count == CountWithAt(s)
    IN  [w \in Pool(s) |-> SumOver(Pos, [i \in Pos |-> count[i][w[i]]])]

\* the words of greatest score
Maximal(score) == {w \in DOMAIN score : \A v \in DOMAIN score : score[v] <= score[w]}

\* C8: the words a recommender may return are the words of the pool whose
\* score, for its mode, is the greatest of the pool.
C8_MaximalScore ==
    ~ possible_words(self).raised =>
        LET info == InformationScore(self)
            posn == PositionalScore(self)
        IN  /\ find_best_guess_by_frequency(self).value = Maximal(info)
            /\ find_best_guess_by_index(self).value = Maximal(posn)
            /\ find_best_guess_combined(self).value =
                  Maximal([w \in Pool(self) |-> info[w] + posn[w]])

\* a store with a letter in included, where the three modes pick different
\* words and the information mode has a tie to choose from
C8_Witness ==
    /\ ~ possible_words(self).raised
    /\ self.included # {}
    /\ Cardinality(find_best_guess_by_frequency(self).value) >= 2
    /\ find_best_guess_by_frequency(self).value
          # find_best_guess_by_index(self).value
    /\ find_best_guess_by_index(self).value
          # find_best_guess_combined(self).value
    /\ \E v \in Pool(self) :
          v \notin find_best_guess_by_frequency(self).value

(***************************************************************************)
(* assign_at_index called by a client, with strings of any length (C11).   *)
(***************************************************************************)
\* the strings handed to assign_at_index, as tuples of characters
AssignArgs ==
    { << >>, <<"A">>, <<"C">>, <<"c">>, <<"A", "C">>, <<"C", "C">>,
      <<"S", "E", "C">> }
\* the strings handed to gray between those calls
AssignGrayArgs == { {"C"}, {"A", "E"} }

AssignAtIndex(index, char) ==
    /\ ops < MaxOps
    /\ self' = assign_at_index(self, index, char)
    /\ raised' = assign_at_index_raises(char)
    /\ call' = [op |-> "assign_at_index", index |-> index, char |-> char]
    /\ ops' = ops + 1
    /\ greens' = IF assign_at_index_raises(char) THEN greens
                 ELSE [greens EXCEPT ![index] = char[1]]
    /\ UNCHANGED <<FIVE_LETTER_WORDS, pc>>

NextAssign ==
    \/ \E index \in Pos, char \in AssignArgs : AssignAtIndex(index, char)
    \/ \E characters \in AssignGrayArgs : Gray(characters)
    \/ Reset

SpecAssign == Init /\ [][NextAssign]_vars

\* the fields of the Constraint Store
Store(s) ==
    <<s.possible_letters, s.included, s.excluded, s.guessed_words, s.hardmode>>

ExampleLexicon ==
    { W(<<"C","R","A","N","E">>), W(<<"S","L","A","T","E">>),
      W(<<"T","R","A","C","E">>), W(<<"G","R","A","P","E">>),
      W(<<"B","R","I","N","E">>) }

\* the tokens and the gray strings of the example, and others around them
ExampleTokens == {Token(i, c) : i \in Pos, c \in {"A", "C"}}
SLATE == {"S", ",", "L", "A", "T", "E"}
ExampleGrayArgs == { SLATE, {"S"}, {"T", "L"} }

\* WordleTrainer() over the Lexicon of the example
InitExample ==
    /\ FIVE_LETTER_WORDS = ExampleLexicon
    /\ self = reset(None)
    /\ call = [op |-> "init"]
    /\ ops = 0
    /\ greens = NoGreens
    /\ raised = FALSE
    /\ pc = "idle"

NextExample ==
    \/ \E characters \in ExampleTokens : Green(characters)
    \/ \E characters \in ExampleTokens : Yellow(characters)
    \/ \E characters \in ExampleGrayArgs : Gray(characters)
    \/ Reset
    \/ GetWords

SpecExample == InitExample /\ [][NextExample]_vars

\* a fresh session after green C----
AfterGreenC ==
    /\ ops = 1
    /\ call.op = "green"
    /\ call.characters = Token(0, "C")

\* a fresh session after gray "S,L,A,T,E", then yellow --A--: of the calls
\* of the model only that gray call leaves possible_letters[0] as it is here
AfterGraySlateYellowA ==
    /\ ops = 2
    /\ call.op = "yellow"
    /\ call.characters = Token(2, "A")
    /\ self.possible_letters[0] = Alphabet \ SLATE

\* C12 as stated: Green(0, C) leaves the candidate set {CRANE}; after reset,
\* Gray("S,L,A,T,E") and Yellow(2, A) leave the candidate set {CRANE, GRAPE}.
C12_ExampleAsStated ==
    /\ AfterGreenC =>
          /\ ~ possible_words(self).raised
          /\ possible_words(self).value = {W(<<"C","R","A","N","E">>)}
    /\ AfterGraySlateYellowA =>
          /\ ~ possible_words(self).raised
          /\ possible_words(self).value =
                { W(<<"C","R","A","N","E">>), W(<<"G","R","A","P","E">>) }

\* C12 as amended: Green(0, C) leaves the candidate set {CRANE}; after reset,
\* Gray("S,L,A,T,E") and Yellow(2, A) leave no candidate word, every word of
\* the example holding A or E, and possible_words raises.
C12_Example ==
    /\ AfterGreenC =>
          /\ ~ possible_words(self).raised
          /\ possible_words(self).value = {W(<<"C","R","A","N","E">>)}
    /\ AfterGraySlateYellowA =>
          /\ remaining_words(self) = {}
          /\ possible_words(self).raised

\* the gray and the yellow call of the example were made, and the query of
\* the words raised
C12_Witness ==
    /\ AfterGraySlateYellowA
    /\ self.included = {"A"}
    /\ "A" \notin self.possible_letters[2]
    /\ raised

(***************************************************************************)
(* The interactive loop: run_text_interface makes a WordleTrainer and      *)
(* calls input_loop, which reads a command, handles it and counts the      *)
(* possible words again (C13).                                             *)
(***************************************************************************)
\* the input line as the pair of its parts before and after the first space;
\* _tokenize_input lower-cases the first and upper-cases the second
_tokenize_input(input_str) ==
    <<input_str[1], [i \in DOMAIN input_str[2] |-> upper(input_str[2][i])]>>

\* a slip: a token of fewer characters passes
_validate_index_token_short(token) == Cardinality(DOMAIN token) <= WordLen

_validate_index_token(token) == Cardinality(DOMAIN token) = WordLen
_validate_any_token(token) == DOMAIN token # {}
\* the upper-cased tokens whose lower() is a key of WORDLEOLOGIST_HELP
HelpTokens == { W(<< >>), W(<<"G","R","A","Y">>) }
_validate_help(token) == token \in HelpTokens

_validate_command_input(input_tuple) ==
    LET command == input_tuple[1]
        token == input_tuple[2]
    IN  CASE command \in {"test", "green", "yellow"} -> _validate_index_token(token)
          [] command = "gray" -> _validate_any_token(token)
          [] command = "help" -> _validate_help(token)
          [] command \in {"exit", "clues", "words", "reset", "hardmode"} -> TRUE
          [] OTHER -> FALSE

\* the session after the method of the command; exit, clues, words, help and
\* test assign nothing
_handle_command(s, cmd) ==
    LET command == cmd[1]
        argument == cmd[2]
    IN  CASE command = "green"    -> green(s, argument)
          [] command = "yellow"   -> yellow(s, argument)
          [] command = "gray"     -> gray(s, CharsOf(argument))
          [] command = "reset"    -> reset(None)
          [] command = "hardmode" -> toggle_hardmode(s)
          [] OTHER -> s

\* the lines typed at the prompt
LoopTokens ==
    { Token(0, "C"), Token(0, "A"), Token(4, "S"), Token(4, "c"),
      W(<<"C", "-">>), W(<<"-", "-", "-", "-", "-", "S">>) }
InputLines ==
    {<<command, token>> : command \in {"green", "yellow"}, token \in LoopTokens}
        \cup {<<"gray", token>> :
                 token \in {W(<<"C">>), W(<<"a", "E">>), W(<< >>)}}
        \cup {<<command, W(<< >>)>> :
                 command \in {"reset", "hardmode", "words", "clues", "exit", "play"}}
        \cup { <<"test", W(<<"C","A","R","E","S">>)>>,
               <<"help", W(<<"G","R","A","Y">>)>>, <<"help", W(<<"C">>)>> }

\* run_text_interface: WordleTrainer(), then input_loop
InitLoop ==
    /\ FIVE_LETTER_WORDS \in Lexicons
    /\ self = reset(None)
    /\ call = [op |-> "init"]
    /\ ops = 0
    /\ greens = NoGreens
    /\ raised = FALSE
    /\ pc = "input_loop"

\* one turn of the while loop of input_loop on the line input_str: the count
\* of the possible words, the line read until one is valid, the command
\* handled, the possible words counted again.  No statement of the loop
\* catches an exception: the ValueError of possible_words and the SystemExit
\* of exit leave input_loop.
LoopTurn(input_str) ==
    /\ pc = "input_loop"
    /\ LET cmd == _tokenize_input(input_str)
           command == cmd[1]
           token == cmd[2]
       IN  IF possible_words(self).raised
           THEN /\ pc' = "ValueError"
                /\ raised' = TRUE
                /\ UNCHANGED <<FIVE_LETTER_WORDS, self, call, ops, greens>>
           ELSE IF ~ _validate_command_input(cmd)
           THEN UNCHANGED vars
           ELSE /\ command \in {"green", "yellow", "gray"} => ops < MaxOps
                /\ self' = _handle_command(self, cmd)
                /\ pc' = IF command = "exit" THEN "SystemExit"
                         ELSE IF possible_words(self').raised THEN "ValueError"
                         ELSE "input_loop"
                /\ raised' = (pc' = "ValueError")
                /\ call' = CASE command \in {"green", "yellow"} ->
                                  [op |-> command, characters |-> token]
                             [] command = "gray" ->
                                  [op |-> command, characters |-> CharsOf(token)]
                             [] command = "reset" -> [op |-> "init"]
                             [] OTHER -> call
                /\ ops' = CASE command \in {"green", "yellow", "gray"} -> ops + 1
                            [] command = "reset" -> 0
                            [] OTHER -> ops
                /\ greens' = CASE command = "green" ->
                                    [i \in Pos |->
                                        IF i \in DOMAIN token /\ token[i] \in Alphabet
                                        THEN token[i] ELSE greens[i]]
                               [] command = "reset" -> NoGreens
                               [] OTHER -> greens
                /\ UNCHANGED FIVE_LETTER_WORDS

NextLoop == \E input_str \in InputLines : LoopTurn(input_str)

SpecLoop == InitLoop /\ [][NextLoop]_vars

\* C13 as stated: when a green, yellow or gray command leaves no candidate
\* word, the fault is raised, the store is as the command left it, and the
\* loop is still reading commands, so that a reset can follow.
C13_LoopGoesOn ==
    (call.op \in {"green", "yellow", "gray"} /\ remaining_words(self) = {})
        => raised /\ pc = "input_loop"

(***************************************************************************)
(* The session driven by calls that set and use a target word: reset with  *)
(* a target word, the evaluation and the validation of a guess (C14, C18). *)
(***************************************************************************)
SessionTokens == { Token(0, "C"), Token(4, "S") }
SessionGrayArgs == { {"A"}, {"c", "E"} }
\* the words handed to _build_guess_evaluation
SessionGuesses == { W(<<"C","A","R","E","S">>), W(<<"S","E","A","R","S">>) }
\* the strings handed to _validate_guess
ValidateArgs ==
    { W(<<"C","A","R","E","S">>), W(<<"c","A","R","E","S">>),
      W(<<"S","E","A","R","S">>), W(<<"C","A","R","E">>),
      W(<<"C","A","R","E","S","S">>), W(<<"C","C","C","C","C">>),
      W(<<"c","C","C","C","C">>), W(<< >>) }

\* a slip: the guess is looked up as typed
_validate_guess_as_typed(s, guess) ==
    IF Cardinality(DOMAIN guess) # 5 THEN [raised |-> FALSE, value |-> FALSE]
    ELSE IF s.target_word = None THEN [raised |-> TRUE, value |-> FALSE]
    ELSE IF guess \notin FIVE_LETTER_WORDS THEN [raised |-> FALSE, value |-> FALSE]
    ELSE [raised |-> FALSE, value |-> TRUE]

\* raised is the RuntimeError, value the bool returned
_validate_guess(s, guess) ==
    IF Cardinality(DOMAIN guess) # 5 THEN [raised |-> FALSE, value |-> FALSE]
    ELSE IF s.target_word = None THEN [raised |-> TRUE, value |-> FALSE]
    ELSE IF [i \in DOMAIN guess |-> upper(guess[i])] \notin FIVE_LETTER_WORDS
    THEN [raised |-> FALSE, value |-> FALSE]
    ELSE [raised |-> FALSE, value |-> TRUE]

\* reset(target_word); before is the session the call found
ResetTo(target_word) ==
    /\ self' = reset(target_word)
    /\ call' = [op |-> "reset", target_word |-> target_word, before |-> self]
    /\ ops' = 0
    /\ greens' = NoGreens
    /\ raised' = FALSE
    /\ UNCHANGED <<FIVE_LETTER_WORDS, pc>>

SessionFeedback ==
    \/ \E characters \in SessionTokens : Green(characters)
    \/ \E characters \in SessionTokens : Yellow(characters)
    \/ \E characters \in SessionGrayArgs : Gray(characters)

SessionHardmode ==
    /\ ops < MaxOps
    /\ self' = toggle_hardmode(self)
    /\ call' = [op |-> "toggle_hardmode"]
    /\ ops' = ops + 1
    /\ raised' = FALSE
    /\ UNCHANGED <<FIVE_LETTER_WORDS, pc, greens>>

\* _build_guess_evaluation(guess): without a target word the first character
\* raises RuntimeError
Evaluate(guess) ==
    /\ ops < MaxOps
    /\ self' = _build_guess_evaluation(self, guess).self
    /\ call' = [op |-> "_build_guess_evaluation", guess |-> guess]
    /\ ops' = ops + 1
    /\ raised' = (self.target_word = None)
    /\ UNCHANGED <<FIVE_LETTER_WORDS, pc, greens>>

\* _validate_guess(guess), which assigns nothing; before is the session the
\* call found
ValidateGuess(guess) ==
    /\ ops < MaxOps
    /\ call' = [op |-> "_validate_guess", guess |-> guess,
                value |-> _validate_guess(self, guess).value, before |-> self]
    /\ ops' = ops + 1
    /\ raised' = _validate_guess(self, guess).raised
    /\ UNCHANGED <<FIVE_LETTER_WORDS, pc, self, greens>>

NextSession ==
    \/ \E target_word \in {None} \cup FIVE_LETTER_WORDS : ResetTo(target_word)
    \/ SessionFeedback
    \/ SessionHardmode
    \/ \E guess \in SessionGuesses : Evaluate(guess)
    \/ \E guess \in ValidateArgs : ValidateGuess(guess)

SpecSession == Init /\ [][NextSession]_vars

\* C14: after reset the session is as a fresh one: possible_letters is the
\* whole alphabet at each of the indexes 0 to 4, included, excluded and
\* guessed_words are empty, hardmode is off, every entry of known_alphabet is
\* white, and target_word is the value handed to reset.
C14_ResetRestores ==
    call.op = "reset" =>
        /\ DOMAIN self.possible_letters = 0 .. 4
        /\ \A i \in 0 .. 4 : self.possible_letters[i] = Alphabet
        /\ self.included = {}
        /\ self.excluded = {}
        /\ self.guessed_words = << >>
        /\ self.hardmode = FALSE
        /\ \A c \in Alphabet : self.known_alphabet[c] = "WHITE"
        /\ self.target_word = call.target_word

\* a reset with a target word, of a session that had another target word,
\* hardmode on and a letter known: nothing of it is left
C14_Witness ==
    /\ call.op = "reset"
    /\ call.target_word # None
    /\ call.before.target_word \notin {None, call.target_word}
    /\ call.before.hardmode
    /\ \E c \in Alphabet : call.before.known_alphabet[c] # "WHITE"
    /\ self = [call.before EXCEPT !.target_word = call.target_word,
                                  !.hardmode = FALSE,
                                  !.known_alphabet = [c \in Alphabet |-> "WHITE"]]

\* what the claim calls valid: 5 characters, and a word of the Lexicon when
\* upper-cased
ValidGuess(guess) ==
    /\ Cardinality(DOMAIN guess) = 5
    /\ \E w \in FIVE_LETTER_WORDS : \A i \in 0 .. 4 : w[i] = upper(guess[i])

\* C18 as stated: in every session _validate_guess returns True for a string
\* of 5 characters that upper-cased is a word of the Lexicon, returns False
\* for any other, and leaves the session as it was.
C18_ValidationAsStated ==
    call.op = "_validate_guess" =>
        /\ ~ raised
        /\ call.value <=> ValidGuess(call.guess)
        /\ self = call.before

\* C18 as amended: in a session with a target word _validate_guess returns
\* True for a string of 5 characters that upper-cased is a word of the
\* Lexicon and False for any other; in a session without a target word it
\* returns False for a string that has not 5 characters and raises
\* RuntimeError for one that has; it leaves the session as it was.
C18_GuessValidation ==
    call.op = "_validate_guess" =>
        /\ raised <=>
              (self.target_word = None /\ Cardinality(DOMAIN call.guess) = 5)
        /\ ~ raised => (call.value <=> ValidGuess(call.guess))
        /\ self = call.before

\* a guess typed with a lower-case letter, validated as a word in a session
\* that has a target word and a store that green has changed
C18_Witness ==
    /\ call.op = "_validate_guess"
    /\ \E i \in DOMAIN call.guess : call.guess[i] \in LowerLetters
    /\ call.value
    /\ ~ raised
    /\ self.target_word # None
    /\ self.included # {}

(***************************************************************************)
(* The feedback calls alone: green, yellow, gray and reset.                *)
(***************************************************************************)
NextFeedback ==
    \/ \E characters \in Tokens : Green(characters)
    \/ \E characters \in Tokens : Yellow(characters)
    \/ \E characters \in GrayArgs : Gray(characters)
    \/ Reset

SpecFeedback == Init /\ [][NextFeedback]_vars

\* C15: whenever there are candidate words, frequencies[c] is the number of
\* candidate words that hold the letter c, a word that holds it twice counting
\* once, and index_frequencies[i][c] is the number of candidate words whose
\* letter at index i is c.
C15_FrequencyCounts ==
    ~ possible_words(self).raised =>
        LET words == possible_words(self).value
            freq == frequencies(words)
            i_freq == index_frequencies(words)
        IN  /\ \A c \in Alphabet :
                  freq[c] = Cardinality({w \in words : \E i \in Pos : w[i] = c})
            /\ \A i \in Pos, c \in Alphabet :
                  i_freq[i][c] = Cardinality({w \in words : w[i] = c})

\* some but not all words are candidates, and one of them holds a letter
\* twice that another does not hold
C15_Witness ==
    /\ ~ possible_words(self).raised
    /\ possible_words(self).value # FIVE_LETTER_WORDS
    /\ \E w \in possible_words(self).value, i, j \in Pos :
          /\ i # j
          /\ w[i] = w[j]
          /\ \E v \in possible_words(self).value : \A k \in Pos : v[k] # w[i]

C17_NoDowngrade ==
    [][\A c \in Alphabet :
          self.known_alphabet[c] = "GREEN" =>
              /\ self'.known_alphabet[c] = "GREEN"
              /\ \A i \in Pos :
                    _evaluate_guess_char(self, i, c).self.known_alphabet[c]
                        = "GREEN"]_vars

\* the last guess holds, at an index where the target word has another
\* letter, a letter that an earlier guess had made green: it is still green
C17_Witness ==
    /\ ops = 2
    /\ call.op = "guess"
    /\ \E i \in Pos :
          /\ call.guess[i] # self.target_word[i]
          /\ call.guess[i] \in CharsOf(self.target_word)
          /\ \A j \in Pos : call.guess[j] = call.guess[i]
                                => self.target_word[j] # call.guess[j]
          /\ self.known_alphabet[call.guess[i]] = "GREEN"

\* C19: after a green call, the same green call made again leaves
\* possible_letters, at the index of the letter and everywhere else, and
\* included as the first call left them.
C19_GreenIdempotent ==
    [][(FeedbackStep /\ call'.op = "green") =>
          LET once == self'
              twice == green(self', call'.characters)
          IN  /\ twice.possible_letters = once.possible_letters
              /\ twice.included = once.included
              /\ \A m \in Marks(call'.characters) :
                    once.possible_letters[m[1]] = {m[2]}]_vars

\* a green call typed in lower case, made on a store where gray had removed
\* that letter: the index holds the letter, which is in included
C19_Witness ==
    /\ ops = 2
    /\ call.op = "green"
    /\ \E i \in Pos :
          /\ call.characters[i] \in LowerLetters
          /\ self.possible_letters[i] = {upper(call.characters[i])}
          /\ upper(call.characters[i]) \in self.included
          /\ \A j \in Pos \ {i} :
                upper(call.characters[i]) \notin self.possible_letters[j]

(***************************************************************************)
(* The filters of possible_words applied in every order (C20).             *)
(***************************************************************************)
\* the filters: 0 to 4 are _filter_by_letter at that index, 5 is
\* _filter_by_inlcuded
FilterIds == 0 .. WordLen
ApplyFilter(f, s, words) ==
    IF f \in Pos THEN _filter_by_letter(f, s.possible_letters[f], words)
    ELSE _filter_by_inlcuded(s.included, words)

\* the filters of order applied one after the other, from the k-th on
RECURSIVE ApplyFrom(_, _, _, _)
ApplyFrom(k, order, s, words) ==
    IF k \notin DOMAIN order THEN words
    ELSE ApplyFrom(k + 1, order, s, ApplyFilter(order[k], s, words))

\* every order of the six filters
FilterOrders ==
    {order \in [1 .. (WordLen + 1) -> FilterIds] :
        \A a, b \in 1 .. (WordLen + 1) : a # b => order[a] # order[b]}

\* C20: the six filters applied to the Lexicon in any order leave the words
\* that possible_words is left with, and every one of those words has at each
\* of the five indexes a letter of possible_letters.
C20_FiltersCommute ==
    /\ \A order \in FilterOrders :
          ApplyFrom(1, order, self, FIVE_LETTER_WORDS) = remaining_words(self)
    /\ \A w \in remaining_words(self), i \in Pos :
          w[i] \in self.possible_letters[i]

\* the filter of included and the filters of two indexes each remove words
\* of the Lexicon that the others keep, and some word passes all
C20_Witness ==
    /\ remaining_words(self) # {}
    /\ \E i, j \in Pos :
          LET by_included == ApplyFilter(WordLen, self, FIVE_LETTER_WORDS)
              by_i == ApplyFilter(i, self, FIVE_LETTER_WORDS)
              by_j == ApplyFilter(j, self, FIVE_LETTER_WORDS)
          IN  /\ i < j
              /\ by_included \ by_i # {}
              /\ by_i \ by_j # {}
              /\ by_j \ by_included # {}
              /\ by_i \ by_included # {}

(***************************************************************************)
(* The queries made between the calls that change the session (C21).       *)
(***************************************************************************)
QueryNames ==
    { "possible_words", "frequencies", "index_frequencies",
      "find_best_guess_by_frequency", "find_best_guess_by_index",
      "find_best_guess_combined" }

\* a slip: words.difference_update(bad_words), which writes to the set that
\* was handed in
words_after_filter_in_place(included, words) ==
    _filter_by_inlcuded(included, words)

\* the set object handed to _filter_by_inlcuded as words, once possible_words
\* has returned: the filters build every result with words.difference, which
\* makes a new set, and only bind the local name to it
words_after_filter(included, words) == words

\* what a query returns, or that it raised the ValueError of possible_words
QueryResult(s, query) ==
    LET words == possible_words(s)
    IN  CASE query = "possible_words" -> words
          [] query = "frequencies" ->
                [raised |-> words.raised,
                 value  |-> IF words.raised THEN EmptyCounter
                            ELSE frequencies(words.value)]
          [] query = "index_frequencies" ->
                [raised |-> words.raised,
                 value  |-> IF words.raised THEN [i \in Pos |-> EmptyCounter]
                            ELSE index_frequencies(words.value)]
          [] query = "find_best_guess_by_frequency" ->
                find_best_guess_by_frequency(s)
          [] query = "find_best_guess_by_index" -> find_best_guess_by_index(s)
          [] query = "find_best_guess_combined" -> find_best_guess_combined(s)

\* one of the queries: none of them assigns to an attribute of self
Query(query) ==
    /\ FIVE_LETTER_WORDS' = words_after_filter(self.included, FIVE_LETTER_WORDS)
    /\ call' = [op |-> query, value |-> QueryResult(self, query).value]
    /\ raised' = QueryResult(self, query).raised
    /\ UNCHANGED <<self, ops, greens, pc>>

\* the target words the sessions of this specification are reset with
QueryTargets == {None, W(<<"E","R","A","S","E">>)}

\* the strings handed to gray in the sessions of this specification
QueryGrayArgs == { {"R"}, {"c", "E"} }

QueryFeedback ==
    \/ \E characters \in SessionTokens : Green(characters)
    \/ \E characters \in SessionTokens : Yellow(characters)
    \/ \E characters \in QueryGrayArgs : Gray(characters)

NextQuery ==
    \/ \E target_word \in QueryTargets : ResetTo(target_word)
    \/ QueryFeedback
    \/ SessionHardmode
    \/ \E guess \in SessionGuesses : Evaluate(guess)
    \/ \E query \in QueryNames : Query(query)

SpecQuery == Init /\ [][NextQuery]_vars

\* a session fresh but for the possible_letters and the included of s
StoreOnly(s) ==
    [reset(None) EXCEPT !.possible_letters = s.possible_letters,
                        !.included = s.included]

\* C21: a query leaves the session and the Lexicon as they were; the
\* candidate set and the two frequency maps are what a fresh session with the
\* same possible_letters and included gets, whatever calls came before.
C21_QueriesPure ==
    [][call'.op \in QueryNames =>
          /\ self' = self
          /\ FIVE_LETTER_WORDS' = FIVE_LETTER_WORDS
          /\ call'.op \in {"possible_words", "frequencies", "index_frequencies"}
                => /\ raised' = QueryResult(StoreOnly(self), call'.op).raised
                   /\ call'.value
                         = QueryResult(StoreOnly(self), call'.op).value]_vars

\* frequencies was read in a session with a target word and hardmode on,
\* after calls that left some but not all words of the Lexicon
C21_Witness ==
    /\ call.op = "frequencies"
    /\ ~ raised
    /\ self.hardmode
    /\ self.target_word # None
    /\ remaining_words(self) # FIVE_LETTER_WORDS
    /\ \E c \in Alphabet : call.value[c] = Cardinality(remaining_words(self))

(***************************************************************************)
(* The creation of a session with a target word (C22).                     *)
(***************************************************************************)
\* WordleTrainer(target_word): __init__ calls self.reset() with no argument
__init__(target_word) == reset(None)

\* WordleTrainer(target_word), the new object taking the place of self
Construct(target_word) ==
    /\ self' = __init__(target_word)
    /\ call' = [op |-> "__init__", target_word |-> target_word]
    /\ ops' = 0
    /\ greens' = NoGreens
    /\ raised' = FALSE
    /\ UNCHANGED <<FIVE_LETTER_WORDS, pc>>

\* new_random_wordle: WordleTrainer(random.choice(tuple(FIVE_LETTER_WORDS)))
new_random_wordle ==
    /\ \E word \in FIVE_LETTER_WORDS :
          /\ self' = __init__(word)
          /\ call' = [op |-> "new_random_wordle", target_word |-> word]
    /\ ops' = 0
    /\ greens' = NoGreens
    /\ raised' = FALSE
    /\ UNCHANGED <<FIVE_LETTER_WORDS, pc>>

NextNew ==
    \/ \E target_word \in {None} \cup FIVE_LETTER_WORDS : Construct(target_word)
    \/ new_random_wordle
    \/ SessionFeedback
    \/ \E guess \in SessionGuesses : Evaluate(guess)

SpecNew == Init /\ [][NextNew]_vars

\* C22 as stated: the session that new_random_wordle or
\* WordleTrainer(target_word) returns holds the chosen word as its
\* target_word, and new_random_wordle chooses a word of the Lexicon.
C22_TargetHeld ==
    call.op \in {"new_random_wordle", "__init__"} =>
        /\ self.target_word = call.target_word
        /\ call.op = "new_random_wordle" => call.target_word \in FIVE_LETTER_WORDS

(***************************************************************************)
(* Python floats.  A float that is not negative is held as its whole part  *)
(* int and, in frac, the digits behind the point: Limbs digits to the base *)
(* Base, the first the most significant.  Every operation is rounded to    *)
(* Precision significant binary digits, to nearest and on a tie to even,   *)
(* as IEEE 754 doubles are.  The digits of frac hold every float of this   *)
(* model that is 2^-21 or more.                                            *)
(***************************************************************************)
\* the significant binary digits of a Python float
Precision == 53
LimbBits == 15
Base == 2 ^ LimbBits
Limbs == 5
FracBits == Limbs * LimbBits

Float(int, frac) == [int |-> int, frac |-> frac]
NoFrac == [i \in 1 .. Limbs |-> 0]

\* the binary digits of the natural number n
RECURSIVE BitLength(_)
BitLength(n) == IF n = 0 THEN 0 ELSE 1 + BitLength(n \div 2)

\* the binary zeros frac starts with
LeadingZeros(frac) ==
    IF frac = NoFrac THEN FracBits
    ELSE LET first == CHOOSE i \in 1 .. Limbs :
                         frac[i] # 0 /\ \A j \in 1 .. (i - 1) : frac[j] = 0
         IN  first * LimbBits - BitLength(frac[first])

\* what the digits from the i-th on carry into the digit before them, when
\* digits may have grown beyond Base
RECURSIVE Carry(_, _)
Carry(frac, i) ==
    IF i > Limbs THEN 0 ELSE (frac[i] + Carry(frac, i + 1)) \div Base

Normalise(int, frac) ==
    Float(int + Carry(frac, 1),
          [i \in 1 .. Limbs |-> (frac[i] + Carry(frac, i + 1)) % Base])

\* the float nearest to int.frac; sticky says that digits other than 0
\* follow those of frac
Round(int, frac, sticky) ==
    LET keep == IF int > 0 THEN Precision - BitLength(int)
                ELSE LeadingZeros(frac) + Precision
    IN  IF keep >= FracBits THEN Float(int, frac)
        ELSE LET q     == keep \div LimbBits + 1
                 unit  == 2 ^ (LimbBits - (keep % LimbBits))
                 guard == (frac[q] \div (unit \div 2)) % 2
                 rest  == \/ sticky
                          \/ frac[q] % (unit \div 2) # 0
                          \/ \E i \in (q + 1) .. Limbs : frac[i] # 0
                 kept  == [i \in 1 .. Limbs |->
                             IF i < q THEN frac[i]
                             ELSE IF i = q THEN frac[q] - (frac[q] % unit)
                             ELSE 0]
                 last  == IF unit < Base THEN (frac[q] \div unit) % 2
                          ELSE IF q > 1 THEN frac[q - 1] % 2
                          ELSE int % 2
             IN  IF guard = 1 /\ (rest \/ last = 1)
                 THEN Normalise(int, [kept EXCEPT ![q] = @ + unit])
                 ELSE Float(int, kept)

\* a * Base^i modulo b
RECURSIVE Remainder(_, _, _)
Remainder(a, b, i) ==
    IF i = 0 THEN a % b ELSE (Remainder(a, b, i - 1) * Base) % b

\* a / b for the ints a >= 0 and b > 0
Divide(a, b) ==
    Round(a \div b,
          [i \in 1 .. Limbs |-> (Remainder(a, b, i - 1) * Base) \div b],
          Remainder(a, b, Limbs) # 0)

\* d * x for the int d >= 0 and the float x
Times(d, x) ==
    LET product == Normalise(d * x.int, [i \in 1 .. Limbs |-> d * x.frac[i]])
    IN  Round(product.int, product.frac, FALSE)

\* m + x for the int m >= 0 and the float x
Plus(m, x) == Round(m + x.int, x.frac, FALSE)

\* m - x for the int m and the float x <= m
Minus(m, x) ==
    IF x.frac = NoFrac THEN Float(m - x.int, NoFrac)
    ELSE LET rest == Normalise(m - x.int - 1,
                         [i \in 1 .. Limbs |->
                             IF i = Limbs THEN Base - x.frac[i]
                             ELSE Base - 1 - x.frac[i]])
         IN  Round(rest.int, rest.frac, FALSE)

(***************************************************************************)
(* ColorRange (C23).                                                       *)
(***************************************************************************)
\* a slip: the channel is rounded to the nearest int
Channel_rounded(min_val, max_val, pos) ==
    LET x == IF max_val >= min_val
             THEN Plus(min_val, Times(max_val - min_val, pos))
             ELSE Minus(min_val, Times(min_val - max_val, pos))
    IN  IF 2 * x.frac[1] >= Base THEN x.int + 1 ELSE x.int

\* int(min_val + (max_val - min_val) * pos) for one channel
Channel(min_val, max_val, pos) ==
    IF max_val >= min_val
    THEN Plus(min_val, Times(max_val - min_val, pos)).int
    ELSE Minus(min_val, Times(min_val - max_val, pos)).int

\* a position handed to color_from_position: the float x, negative if neg
Position(neg, x) == [neg |-> neg, x |-> x]
IsZero(x) == x.int = 0 /\ x.frac = NoFrac

\* raised is the ValueError (or the ZeroDivisionError of color_from_number),
\* value the tuple returned
color_from_position(cr, pos) ==
    IF \/ pos.neg /\ ~ IsZero(pos.x)
       \/ pos.x.int > 1
       \/ pos.x.int = 1 /\ pos.x.frac # NoFrac
    THEN [raised |-> TRUE, value |-> "ValueError"]
    ELSE [raised |-> FALSE,
          value  |-> [c \in 1 .. 3 |->
                        Channel(cr.min_color[c], cr.max_color[c], pos.x)]]

color_from_number(cr, n) ==
    IF ~ (cr.min <= n /\ n <= cr.max)
    THEN [raised |-> TRUE, value |-> "ValueError"]
    ELSE IF cr.max = cr.min
    THEN [raised |-> TRUE, value |-> "ZeroDivisionError"]
    ELSE color_from_position(cr, Position(FALSE, Divide(n - cr.min, cr.max - cr.min)))

\* ColorRange(min, max, min_color, max_color), None standing for a colour
\* that is not given
ColorRange(min, max, min_color, max_color) ==
    [ min       |-> min,
      max       |-> max,
      min_color |-> IF min_color = None THEN <<0, 0, 0>> ELSE min_color,
      max_color |-> IF max_color = None THEN <<255, 255, 255>> ELSE max_color ]

\* OutputColor
GREEN == <<0, 192, 50>>
YELLOW == <<228, 208, 0>>
GRAY == <<98, 98, 98>>

\* the ranges of the model: ColorRange(), the one of the tests, word_cr of
\* input_loop, one whose channels differ by the width of the range and one
\* that does not start at 0
ColorRanges ==
    { ColorRange(0, 100, None, None),
      ColorRange(0, 100, <<0, 255, 128>>, <<255, 0, 128>>),
      ColorRange(0, 100, GREEN, <<193, 193, 193>>),
      ColorRange(0, 100, <<0, 100, 200>>, <<100, 0, 50>>),
      ColorRange(2, 12, GRAY, YELLOW) }
\* the numbers handed to color_from_number
Numbers == (0 - 1) .. 101
\* the positions handed to color_from_position: 0.0, -0.0, 1.0, 0.5, 0.25,
\* 0.75, -0.5, 1.5 and 2.0
Positions ==
    { Position(FALSE, Divide(0, 1)), Position(TRUE, Divide(0, 1)),
      Position(FALSE, Divide(1, 1)), Position(FALSE, Divide(1, 2)),
      Position(FALSE, Divide(1, 4)), Position(FALSE, Divide(3, 4)),
      Position(TRUE, Divide(1, 2)), Position(FALSE, Divide(3, 2)),
      Position(FALSE, Divide(2, 1)) }

InitColorRange ==
    /\ FIVE_LETTER_WORDS = LexiconA
    /\ self \in ColorRanges
    /\ call = [op |-> "init"]
    /\ ops = 0
    /\ greens = NoGreens
    /\ raised = FALSE
    /\ pc = "idle"

ColorFromNumber(n) ==
    /\ call' = [op |-> "color_from_number", n |-> n,
                value |-> color_from_number(self, n).value]
    /\ raised' = color_from_number(self, n).raised
    /\ UNCHANGED <<FIVE_LETTER_WORDS, self, ops, greens, pc>>

ColorFromPosition(pos) ==
    /\ call' = [op |-> "color_from_position", pos |-> pos,
                value |-> color_from_position(self, pos).value]
    /\ raised' = color_from_position(self, pos).raised
    /\ UNCHANGED <<FIVE_LETTER_WORDS, self, ops, greens, pc>>

NextColorRange ==
    \/ \E n \in Numbers : ColorFromNumber(n)
    \/ \E pos \in Positions : ColorFromPosition(pos)

SpecColorRange == InitColorRange /\ [][NextColorRange]_vars

\* the truncation of min_c + (max_c - min_c) * (n - min) / (max - min) for
\* the channel c, in whole numbers
Interpolated(cr, n, c) ==
    LET d == cr.max_color[c] - cr.min_color[c]
        a == n - cr.min
        b == cr.max - cr.min
    IN  IF d >= 0 THEN cr.min_color[c] + (d * a) \div b
        ELSE cr.min_color[c] - (((0 - d) * a + b - 1) \div b)

\* C23 as stated: for min <= n <= max color_from_number(n) is, channel by
\* channel, the truncation of min_c + (max_c - min_c) * (n - min) / (max - min),
\* which is min_color at min, max_color at max and between the two
\* everywhere; for another n, and for a position outside [0, 1], it raises
\* ValueError.
C23_Interpolation ==
    /\ call.op = "color_from_number" =>
          IF self.min <= call.n /\ call.n <= self.max
          THEN /\ ~ raised
               /\ \A c \in 1 .. 3 : call.value[c] = Interpolated(self, call.n, c)
          ELSE raised /\ call.value = "ValueError"
    /\ call.op = "color_from_position" =>
          (raised <=> \/ call.pos.neg /\ ~ IsZero(call.pos.x)
                      \/ call.pos.x.int >= 2
                      \/ call.pos.x.int = 1 /\ call.pos.x.frac # NoFrac)

(***************************************************************************)
(* ColorBox (C24).                                                         *)
(***************************************************************************)
\* ColorBox(x_bounds, y_bounds, upper_colors, lower_colors), None standing
\* for a pair of colours that is not given
ColorBox(x_bounds, y_bounds, upper_colors, lower_colors) ==
    LET upper_edge == IF upper_colors = None
                 THEN <<<<255, 255, 0>>, <<0, 0, 255>>>> ELSE upper_colors
        lower_edge == IF lower_colors = None
                 THEN <<<<0, 0, 0>>, <<255, 255, 255>>>> ELSE lower_colors
    IN  [ x_min |-> x_bounds[1], x_max |-> x_bounds[2],
          y_min |-> y_bounds[1], y_max |-> y_bounds[2],
          upper_range |-> ColorRange(x_bounds[1], x_bounds[2], upper_edge[1], upper_edge[2]),
          lower_range |-> ColorRange(x_bounds[1], x_bounds[2], lower_edge[1], lower_edge[2]) ]

color_from_numbers(cb, x, y) ==
    LET upper_edge == color_from_number(cb.upper_range, x)
        lower_edge == color_from_number(cb.lower_range, x)
    IN  IF upper_edge.raised THEN upper_edge
        ELSE color_from_number(
                 ColorRange(cb.y_min, cb.y_max, lower_edge.value, upper_edge.value), y)

color_from_positions(cb, x, y) ==
    LET upper_edge == color_from_position(cb.upper_range, x)
        lower_edge == color_from_position(cb.lower_range, x)
    IN  IF upper_edge.raised THEN upper_edge
        ELSE color_from_position(
                 ColorRange(cb.y_min, cb.y_max, lower_edge.value, upper_edge.value), y)

\* the boxes of the model: ColorBox() and the one of _build_prediction_str
ColorBoxes ==
    { ColorBox(<<0, 100>>, <<0, 100>>, None, None),
      ColorBox(<<0, 100>>, <<0, 100>>, <<YELLOW, GREEN>>, <<GRAY, GRAY>>) }
\* the positions handed to color_from_positions: 0.0, 0.25, 0.5, 0.75, 1.0,
\* 1 / 3, 0.29, 1.5 and -0.5
BoxPositions ==
    { Position(FALSE, Divide(k, 4)) : k \in 0 .. 4 }
        \cup { Position(FALSE, Divide(1, 3)), Position(FALSE, Divide(29, 100)),
               Position(FALSE, Divide(3, 2)), Position(TRUE, Divide(1, 2)) }
\* the numbers handed to color_from_numbers
BoxNumbers == {0 - 1, 0, 29, 50, 100}

InitColorBox ==
    /\ FIVE_LETTER_WORDS = LexiconA
    /\ self \in ColorBoxes
    /\ call = [op |-> "init"]
    /\ ops = 0
    /\ greens = NoGreens
    /\ raised = FALSE
    /\ pc = "idle"

ColorFromNumbers(x, y) ==
    /\ call' = [op |-> "color_from_numbers", x |-> x, y |-> y,
                value |-> color_from_numbers(self, x, y).value]
    /\ raised' = color_from_numbers(self, x, y).raised
    /\ UNCHANGED <<FIVE_LETTER_WORDS, self, ops, greens, pc>>

ColorFromPositions(x, y) ==
    /\ call' = [op |-> "color_from_positions", x |-> x, y |-> y,
                value |-> color_from_positions(self, x, y).value]
    /\ raised' = color_from_positions(self, x, y).raised
    /\ UNCHANGED <<FIVE_LETTER_WORDS, self, ops, greens, pc>>

NextColorBox ==
    \/ \E x, y \in BoxNumbers : ColorFromNumbers(x, y)
    \/ \E x, y \in BoxPositions : ColorFromPositions(x, y)

SpecColorBox == InitColorBox /\ [][NextColorBox]_vars

\* a position of [0, 1]
InUnit(pos) ==
    \/ IsZero(pos.x)
    \/ ~ pos.neg /\ (pos.x.int = 0 \/ pos.x = Divide(1, 1))
\* the colours of the lower_edge and of the upper_edge edge at the position x
LowerEdge(cb, x) == color_from_position(cb.lower_range, x).value
UpperEdge(cb, x) == color_from_position(cb.upper_range, x).value

\* C24: color_from_positions(x, 0) is the colour of the lower_edge edge at x and
\* color_from_positions(x, 1) that of the upper_edge edge, so that the four corners
\* give the four colours of the box; for a y between, every channel lies
\* between the channels of the two edge colours at x and, at the quarters, is
\* the truncation of lower + (upper - lower) * y.
C24_BoxInterpolation ==
    call.op = "color_from_positions" =>
        /\ raised <=> ~ (InUnit(call.x) /\ InUnit(call.y))
        /\ ~ raised =>
              LET lower_edge == LowerEdge(self, call.x)
                  upper_edge == UpperEdge(self, call.x)
              IN  /\ IsZero(call.y.x) => call.value = lower_edge
                  /\ call.y.x = Divide(1, 1) => call.value = upper_edge
                  /\ IsZero(call.x.x) /\ IsZero(call.y.x)
                        => call.value = self.lower_range.min_color
                  /\ call.x.x = Divide(1, 1) /\ IsZero(call.y.x)
                        => call.value = self.lower_range.max_color
                  /\ IsZero(call.x.x) /\ call.y.x = Divide(1, 1)
                        => call.value = self.upper_range.min_color
                  /\ call.x.x = Divide(1, 1) /\ call.y.x = Divide(1, 1)
                        => call.value = self.upper_range.max_color
                  /\ \A c \in 1 .. 3 :
                        \/ lower_edge[c] <= call.value[c] /\ call.value[c] <= upper_edge[c]
                        \/ upper_edge[c] <= call.value[c] /\ call.value[c] <= lower_edge[c]
                  /\ \A k \in 0 .. 4, c \in 1 .. 3 :
                        call.y.x = Divide(k, 4) =>
                            call.value[c] =
                                IF upper_edge[c] >= lower_edge[c]
                                THEN lower_edge[c] + ((upper_edge[c] - lower_edge[c]) * k) \div 4
                                ELSE lower_edge[c] - (((lower_edge[c] - upper_edge[c]) * k + 3) \div 4)

\* a colour was read half way up between two edge colours of which a channel
\* has an odd sum, so that the truncation shows
C24_Witness ==
    /\ call.op = "color_from_positions"
    /\ ~ raised
    /\ call.y.x = Divide(1, 2)
    /\ \E c \in 1 .. 3 :
          /\ (LowerEdge(self, call.x)[c] + UpperEdge(self, call.x)[c]) % 2 = 1
          /\ 2 * call.value[c] + 1
                = LowerEdge(self, call.x)[c] + UpperEdge(self, call.x)[c]

(***************************************************************************)
(* The set excluded (C25).                                                 *)
(***************************************************************************)
\* C25: excluded is empty in every state, whatever calls were made, so the
\* score of _get_frequency_score leaves out the letters of included and no
\* others.
C25_ExcludedEmpty ==
    /\ self.excluded = {}
    /\ \A word \in FIVE_LETTER_WORDS :
          LET freq == frequencies(remaining_words(self))
          IN  _get_frequency_score(self, word, freq)
                 = SumOver(CharsOf(word) \ self.included, freq)

\* the recommender was called after a gray call had removed a letter
\* everywhere and another call had put a letter in included
C25_Witness ==
    /\ call.op = "find_best_guess_by_frequency"
    /\ ~ raised
    /\ self.included # {}
    /\ \E c \in Alphabet : \A i \in Pos : c \notin self.possible_letters[i]
    /\ self.excluded = {}

(***************************************************************************)
(* The indexes the command loop writes (C26).                              *)
(***************************************************************************)
\* C26: a green or yellow command that was handled had a token of 5
\* characters, so the letters it named stand at the indexes 0 to 4, and the
\* keys of possible_letters are 0 to 4 in every state of the command loop.
C26_PositionsInRange ==
    /\ DOMAIN self.possible_letters = 0 .. 4
    /\ call.op \in {"green", "yellow"} =>
          /\ Cardinality(DOMAIN call.characters) = 5
          /\ \A m \in Marks(call.characters) : m[1] \in 0 .. 4

\* a yellow command was handled after a green one that named a letter at
\* the last index
C26_Witness ==
    /\ pc = "input_loop"
    /\ ops = 2
    /\ call.op = "yellow"
    /\ greens[4] # NoLetter
    /\ Cardinality(self.possible_letters[4]) = 1

(***************************************************************************)
(* The game loop of play (C27).  pc is "play" while the loop waits for a   *)
(* guess at the prompt, "win" and "lose" once play has printed its last    *)
(* message, "RuntimeError" when _validate_guess found no target word.      *)
(***************************************************************************)
\* a slip: a seventh guess is asked for
LoopTest_one_more(s) ==
    /\ s.target_word \notin {s.guessed_words[i] : i \in DOMAIN s.guessed_words}
    /\ Len(s.guessed_words) <= 6

\* the test of the while loop of play
LoopTest(s) ==
    /\ s.target_word \notin {s.guessed_words[i] : i \in DOMAIN s.guessed_words}
    /\ Len(s.guessed_words) < 6

\* where play is once the loop test was made on s
AfterTest(s) ==
    IF LoopTest(s) THEN "play"
    ELSE IF s.target_word \in {s.guessed_words[i] : i \in DOMAIN s.guessed_words}
         THEN "win"
         ELSE "lose"

\* for word in self.guessed_words: self.rich_print_guess_response(word),
\* from the i-th word on; the evaluation writes known_alphabet
RECURSIVE PrintResponses(_, _)
PrintResponses(s, i) ==
    IF i > Len(s.guessed_words) THEN s
    ELSE CHOOSE printed \in
             {PrintResponses(evaluated, i + 1) :
                 evaluated \in
                     {_build_guess_evaluation(s, s.guessed_words[i]).self}} :
             TRUE

\* the strings typed at the prompt of play
PlayGuesses ==
    { W(<<"C","A","R","E","S">>), W(<<"c","A","R","E","S">>),
      W(<<"S","E","A","R","S">>), W(<<"E","R","A","S","E">>),
      W(<<"C","A","R","E">>), W(<<"C","C","C","C","C">>) }
\* the target words play is started with
PlayTargets ==
    { None, W(<<"E","R","A","S","E">>), W(<<"C","A","R","E","S">>),
      W(<<"S","E","A","R","S">>) }

\* a session reset with a target word of the Lexicon, or with none
InitPlay ==
    /\ FIVE_LETTER_WORDS \in Lexicons
    /\ \E target_word \in PlayTargets \cap ({None} \cup FIVE_LETTER_WORDS) :
          self = reset(target_word)
    /\ call = [op |-> "init"]
    /\ ops = 0
    /\ greens = NoGreens
    /\ raised = FALSE
    /\ pc = "idle"

\* play() called: the first test of the loop
Play ==
    /\ pc \in {"idle", "win", "lose"}
    /\ pc' = AfterTest(self)
    /\ call' = [op |-> "play"]
    /\ raised' = FALSE
    /\ UNCHANGED <<FIVE_LETTER_WORDS, self, ops, greens>>

\* one line typed at the prompt of _get_valid_turn: a guess that is not valid
\* is asked for again; a valid one is upper-cased and appended, the guesses
\* are printed and the loop test is made
Turn(guess) ==
    /\ pc = "play"
    /\ \E printed \in {PrintResponses(
                             [self EXCEPT !.guessed_words =
                                 Append(@, [i \in DOMAIN guess |->
                                               upper(guess[i])])],
                             1)} :
       LET valid == _validate_guess(self, guess)
       IN  /\ call' = [op |-> "turn", guess |-> guess,
                       valid |-> ~ valid.raised /\ valid.value]
           /\ raised' = valid.raised
           /\ IF valid.raised
              THEN pc' = "RuntimeError" /\ self' = self
              ELSE IF ~ valid.value
              THEN pc' = pc /\ self' = self
              ELSE self' = printed /\ pc' = AfterTest(printed)
    /\ UNCHANGED <<FIVE_LETTER_WORDS, ops, greens>>

NextPlay ==
    \/ Play
    \/ \E guess \in PlayGuesses : Turn(guess)

SpecPlay == InitPlay /\ [][NextPlay]_vars

\* the user enters a valid guess in the end
ValidTurn == \E guess \in PlayGuesses : ValidGuess(guess) /\ Turn(guess)

SpecPlayFair == SpecPlay /\ WF_vars(ValidTurn)

GuessedWords == {self.guessed_words[i] : i \in DOMAIN self.guessed_words}

\* what holds of play in every state, with a target word set
PlayInvariant ==
    self.target_word # None =>
        /\ Len(self.guessed_words) <= 6
        /\ GuessedWords \subseteq FIVE_LETTER_WORDS
        /\ call.op = "turn" /\ call.valid =>
              /\ ValidGuess(call.guess)
              /\ self.guessed_words[Len(self.guessed_words)]
                    = [i \in DOMAIN call.guess |-> upper(call.guess[i])]
        /\ \A i \in 1 .. (Len(self.guessed_words) - 1) :
              self.guessed_words[i] # self.target_word
        /\ pc = "play" =>
              /\ self.target_word \notin GuessedWords
              /\ Len(self.guessed_words) < 6
        /\ pc = "win" => self.target_word \in GuessedWords
        /\ pc = "lose" =>
              /\ self.target_word \notin GuessedWords
              /\ Len(self.guessed_words) = 6

\* C27: with a target word set, guessed_words never holds more than 6 words,
\* each the upper-cased form of a guess that passed validation; the loop asks
\* for no guess once the target word or 6 words are recorded, and ends with
\* the win message exactly when the target word is among them; if valid
\* guesses keep coming, the loop ends.
C27_PlayBounded ==
    /\ [] PlayInvariant
    /\ (pc = "play" /\ self.target_word # None) ~> (pc \in {"win", "lose"})

\* six valid guesses were recorded, none of them the target word
C27_Witness ==
    /\ self.target_word # None
    /\ pc = "lose"
    /\ Len(self.guessed_words) = 6

====
